---- MODULE Spec2Model ----
(***************************************************************************)
(* Model of ado-pipeline-doc.py: one invocation of ADOPipelineDoc          *)
(* (parseYAML -> processData -> writeFile), the target document on disk,   *)
(* and repeated invocations on the same target.                            *)
(*                                                                         *)
(* Text is a sequence of fragments (short strings); concatenation is \o,   *)
(* str.find is Find, slicing is Take/Drop.  A marker is three fragments,   *)
(* as the f-string "<!-- {name} -->" has three parts, so that a partial    *)
(* marker in a document is possible.                                       *)
(***************************************************************************)
EXTENDS Integers, Sequences, FiniteSets, TLC

\* ------------------------------------------------------------------ bounds
MaxParams == 2      \* longest parameter list drawn for the rendering cases
MaxChunks == 4      \* longest target document, in chunks, for the sink cases
MaxRuns   == 2      \* invocations on the same target document

\* ------------------------------------------------------------ text helpers
NL == <<"\n">>

RECURSIVE Join(_, _)
\* sep.join(lines)
Join(lines, sep) ==
  IF Len(lines) = 0 THEN <<>>
  ELSE IF Len(lines) = 1 THEN lines[1]
  ELSE lines[1] \o sep \o Join(Tail(lines), sep)

\* s[:n]
Take(s, n) == SubSeq(s, 1, n)
\* s[n:]
Drop(s, n) == SubSeq(s, n + 1, Len(s))

\* s.find(sub): lowest 0-based index of an occurrence, -1 when there is none
Find(s, sub) ==
  LET hits == {i \in 0..(Len(s) - Len(sub)) : SubSeq(s, i + 1, i + Len(sub)) = sub}
  IN IF hits = {} THEN -1 ELSE CHOOSE i \in hits : \A j \in hits : i <= j

\* ------------------------------------------------------------ the markers
mdStart == "ADOPipelineDoc Start"
mdEnd == "ADOPipelineDoc End"
mdStartStr == <<"<!-- ", mdStart, " -->">>
mdEndStr == <<"<!-- ", mdEnd, " -->">>

\* ------------------------------------------------------------ YAML values
\* A parsed YAML value: a tag and its items (text fragments, list items, or
\* the key and value of a one-entry mapping).
StrV(frags) == [tag |-> "str", items |-> frags]
IntV(digits) == [tag |-> "int", items |-> <<digits>>]
BoolV(b) == [tag |-> "bool", items |-> IF b THEN <<"True">> ELSE <<"False">>]
ListV(xs) == [tag |-> "list", items |-> xs]
DictV(k, v) == [tag |-> "dict", items |-> <<k, v>>]
NoneV == [tag |-> "none", items |-> <<>>]

\* Python truth value of a parsed value
Truthy(v) ==
  CASE v.tag = "none" -> FALSE
    [] v.tag = "bool" -> v.items = <<"True">>
    [] v.tag = "int" -> v.items # <<"0">>
    [] OTHER -> v.items # <<>>

\* str(v)
Str(v) ==
  CASE v.tag = "none" -> <<"None">>
    [] v.tag = "list" ->
         <<"[">> \o Join([i \in 1..Len(v.items) |-> <<"'", v.items[i], "'">>], <<", ">>) \o <<"]">>
    [] v.tag = "dict" -> <<"{", "'", v.items[1], "'", ": ", "'", v.items[2], "'", "}">>
    [] OTHER -> v.items

\* yaml.dump(v, default_flow_style=False).strip().replace('\n', '<br/>')
prettyObject(v) ==
  CASE v.tag = "list" ->
         Join([i \in 1..Len(v.items) |-> <<"- ", v.items[i]>>], <<"<br/>">>)
    [] v.tag = "dict" -> <<v.items[1], ": ", v.items[2]>>
    [] v.tag = "bool" ->
         <<(IF v.items = <<"True">> THEN "true" ELSE "false"), "<br/>", "...">>
    [] v.tag = "none" -> <<"null", "<br/>", "...">>
    [] OTHER -> v.items \o <<"<br/>", "...">>

\* dict.get(k, d)
Get(p, k, d) == IF k \in DOMAIN p THEN p[k] ELSE d

\* ------------------------------------------------------------ processData
heading_order == <<"required", "name", "type", "displayName", "values", "default">>

heading_separator(key) == IF key = "required" THEN ":-:" ELSE ":--"

object_template ==
  [required |-> StrV(<<"Yes">>), name |-> StrV(<<>>), type |-> StrV(<<>>),
   displayName |-> StrV(<<>>), values |-> StrV(<<>>), default |-> StrV(<<>>)]

OptionalCols == {"displayName", "values", "default"}

\* the test of line 219
MissingField(param) ==
  ~Truthy(Get(param, "name", NoneV)) \/ ~Truthy(Get(param, "type", NoneV))

\* use_col[key] after the loop of lines 218-242
use_col(params, key) ==
  \E i \in 1..Len(params) : Truthy(Get(params[i], key, StrV(<<>>)))

\* row_object of one parameter, lines 229-240
row_object(param) ==
  LET overlaid == [k \in DOMAIN object_template \cup DOMAIN param |->
                     IF k \in DOMAIN param THEN param[k] ELSE object_template[k]]
      hasDefault == Truthy(Get(param, "default", StrV(<<>>)))
      r1 == IF hasDefault THEN [overlaid EXCEPT !["required"] = StrV(<<>>)] ELSE overlaid
      r2 == IF Get(param, "type", NoneV) = StrV(<<"object">>) /\ Truthy(Get(param, "default", NoneV))
            THEN [r1 EXCEPT !["default"] = StrV(prettyObject(param["default"]))] ELSE r1
      r3 == IF Truthy(Get(param, "values", NoneV))
            THEN [r2 EXCEPT !["values"] = StrV(prettyObject(param["values"]))] ELSE r2
  IN r3

\* heading_order after the removals of lines 244-246
used_order(params) ==
  SelectSeq(heading_order, LAMBDA key : key \notin OptionalCols \/ use_col(params, key))

\* row after row.pop(key, None) for every unused column, lines 247-248
popped_row(params, param) ==
  LET row == row_object(param)
      dropped == {key \in OptionalCols : ~use_col(params, key)}
  IN [k \in (DOMAIN row) \ dropped |-> row[k]]

\* "| " + " | ".join(cells) + " |"
PipeRow(cells) == <<"| ">> \o Join(cells, <<" | ">>) \o <<" |">>

header_row(params) ==
  LET order == used_order(params)
  IN PipeRow([i \in 1..Len(order) |-> <<order[i]>>])

separator_row(params) ==
  LET order == used_order(params)
  IN PipeRow([i \in 1..Len(order) |-> <<heading_separator(order[i])>>])

row_text(params, param) ==
  LET order == used_order(params)
      row == popped_row(params, param)
  IN PipeRow([i \in 1..Len(order) |-> Str(Get(row, order[i], StrV(<<>>)))])

\* table_rows as built by lines 250-270
BuildTable(params, toFile) ==
  (IF toFile THEN <<mdStartStr>> ELSE <<>>)
  \o <<header_row(params), separator_row(params)>>
  \o [i \in 1..Len(params) |-> row_text(params, params[i])]
  \o (IF toFile THEN <<mdEndStr>> ELSE <<>>)

\* ------------------------------------------------------------- the inputs
\* Parameter records as yaml.safe_load returns them (mappings).
P_plain == [name |-> StrV(<<"env">>), type |-> StrV(<<"string">>)]
P_display == [name |-> StrV(<<"env">>), type |-> StrV(<<"string">>), displayName |-> StrV(<<"Env">>)]
P_values == [name |-> StrV(<<"size">>), type |-> StrV(<<"string">>), values |-> ListV(<<"a", "b">>)]
P_default == [name |-> StrV(<<"replicas">>), type |-> StrV(<<"number">>), default |-> IntV("3")]
P_false == [name |-> StrV(<<"flag">>), type |-> StrV(<<"boolean">>), default |-> BoolV(FALSE)]
P_object == [name |-> StrV(<<"cfg">>), type |-> StrV(<<"object">>), default |-> DictV("k", "v")]
P_noname == [type |-> StrV(<<"string">>)]
P_emptytype == [name |-> StrV(<<"x">>), type |-> StrV(<<>>)]
P_required == [name |-> StrV(<<"env">>), type |-> StrV(<<"string">>), required |-> StrV(<<"no">>)]
P_marker == [name |-> StrV(<<"env">>), type |-> StrV(<<"string">>), displayName |-> StrV(mdEndStr)]
P_empties == [name |-> StrV(<<"env">>), type |-> StrV(<<"string">>), values |-> ListV(<<>>), default |-> StrV(<<>>)]

ParamPool == {P_plain, P_display, P_values, P_default, P_false, P_object,
              P_noname, P_emptytype, P_required, P_marker, P_empties}

ParamLists(n) == UNION {[1..k -> ParamPool] : k \in 1..n}

\* What reading and parsing the configuration document gives: the file is
\* missing or unreadable, the text is malformed, or safe_load returns None,
\* a sequence, a scalar, or a mapping with or without a 'parameters' entry.
YamlOutcome(kind, hasParams, params) == [kind |-> kind, hasParams |-> hasParams, params |-> params]

YamlNonLists ==
  {YamlOutcome(k, FALSE, <<>>) : k \in {"missing", "denied", "malformed", "null", "seq", "scalar", "map"}}
  \cup {YamlOutcome("map", TRUE, <<>>)}

\* A file: absent, unreadable, or readable with a text.
AbsentFile == [exists |-> FALSE, readable |-> FALSE, text |-> <<>>]
DeniedFile == [exists |-> TRUE, readable |-> FALSE, text |-> <<"x">>]
TextFile(t) == [exists |-> TRUE, readable |-> TRUE, text |-> t]

Chunks == {mdStartStr, mdEndStr, <<"x">>, NL, <<"<!-- ">>}
Docs(n) == {Join(cs, <<>>) : cs \in UNION {[1..k -> Chunks] : k \in 0..n}}

\* ---------------------------------------------------------------- state
VARIABLES
  yamlIn,       \* outcome of reading and parsing self.yamlFile
  mdFile,       \* TRUE when --mdfile is given (self.mdFile is not None)
  files,        \* the target document "md" and the temporary file "tmp"
  pc,           \* position of the invocation
  err,          \* kind of the exception that ended the invocation
  parameters,   \* self.parameters
  table_rows,   \* self.table_rows
  stdout,       \* what the invocation printed
  content, start_index, end_index,   \* locals of writeFile
  runs,         \* number of the current invocation on this target
  docIn,        \* the target document as the current invocation found it
  doc0,         \* the target document before the first invocation
  doc1          \* the target document as the first invocation left it

vars == <<yamlIn, mdFile, files, pc, err, parameters, table_rows, stdout,
          content, start_index, end_index, runs, docIn, doc0, doc1>>

InitRun ==
  /\ pc = "parseYAML"
  /\ err = "none"
  /\ parameters = <<>>
  /\ table_rows = <<>>
  /\ stdout = <<>>
  /\ content = <<>>
  /\ start_index = -1
  /\ end_index = -1
  /\ runs = 1
  /\ docIn = files["md"]
  /\ doc0 = files["md"]
  /\ doc1 = AbsentFile

\* every configuration outcome and parameter list, a few targets
InitRender ==
  /\ yamlIn \in YamlNonLists \cup {YamlOutcome("map", TRUE, ps) : ps \in ParamLists(MaxParams)}
  /\ \E target \in {AbsentFile, DeniedFile, TextFile(<<>>), TextFile(mdStartStr),
                    TextFile(<<"x">> \o mdStartStr \o <<"old">> \o mdEndStr \o NL)} :
       /\ mdFile \in BOOLEAN
       /\ files = [f \in {"md", "tmp"} |-> IF f = "md" /\ mdFile THEN target ELSE AbsentFile]
  /\ InitRun

\* a few parameter lists, every target document
InitSink ==
  /\ yamlIn \in {YamlOutcome("map", TRUE, ps) :
                   ps \in {<<P_plain>>, <<P_marker>>, <<P_default, P_noname>>}}
  /\ mdFile = TRUE
  /\ \E t \in Docs(MaxChunks) :
       files = [f \in {"md", "tmp"} |-> IF f = "md" THEN TextFile(t) ELSE AbsentFile]
  /\ InitRun

Init == InitRender \/ InitSink

\* ------------------------------------------------------------- the steps
\* An ADOPipelineDocException reaches the handler of __main__, which prints
\* one line; nothing else runs afterwards.
Fail(kind) ==
  /\ pc' = "error"
  /\ err' = kind
  /\ stdout' = Append(stdout, <<"Error: ", kind>>)

\* Any other exception is not caught: traceback, nothing on stdout.
Uncaught(kind) ==
  /\ pc' = "uncaught"
  /\ err' = kind
  /\ stdout' = stdout

\* The exception parseYAML ends with, "none" when it returns.
parseYAMLError(y) ==
  CASE y.kind = "missing" -> "ConfigNotFound"
    [] y.kind = "denied" -> "AccessDenied"
    [] y.kind = "malformed" -> "MalformedConfig"
    [] y.kind = "null" -> "EmptyConfig"
    [] y.kind \in {"seq", "scalar"} -> "AttributeError"
    [] y.kind = "map" /\ (~y.hasParams \/ y.params = <<>>) -> "NoParameters"
    [] OTHER -> "none"

ParseYAML ==
  /\ pc = "parseYAML"
  /\ LET e == parseYAMLError(yamlIn)
     IN CASE e = "none" ->
               /\ parameters' = yamlIn.params
               /\ pc' = "processData"
               /\ UNCHANGED <<err, stdout>>
          [] e = "AttributeError" -> Uncaught(e) /\ UNCHANGED parameters
          [] OTHER -> Fail(e) /\ UNCHANGED parameters
  /\ UNCHANGED <<yamlIn, mdFile, files, table_rows, content, start_index, end_index,
                 runs, docIn, doc0, doc1>>

ProcessData ==
  /\ pc = "processData"
  /\ IF \E i \in 1..Len(parameters) : MissingField(parameters[i])
     THEN Fail("MissingRequiredField") /\ UNCHANGED table_rows
     ELSE /\ table_rows' = BuildTable(parameters, mdFile)
          /\ pc' = "writeFile"
          /\ UNCHANGED <<err, stdout>>
  /\ UNCHANGED <<yamlIn, mdFile, files, parameters, content, start_index, end_index,
                 runs, docIn, doc0, doc1>>

\* variant: the new content is written straight into the target document
TempFileNameIsTarget == "md"

\* the name NamedTemporaryFile gives the temporary file
TempFileName == "tmp"

\* the exception of lines 295-301, "none" when neither test fires
MarkerError(s, e) ==
  IF s = -1 /\ e > -1 THEN "DanglingEndMarker"
  ELSE IF s > -1 /\ e = -1 THEN "DanglingStartMarker"
  ELSE "none"

\* variant: the temporary file is opened before the marker tests
OpenBeforeMarkerChecks(fs, error) == [fs EXCEPT ![TempFileName] = TextFile(<<>>)]

\* the files once the marker tests are over: the temporary file is opened
\* (created empty) only when no test raised
AfterMarkerChecks(fs, error) ==
  IF error = "none" THEN [fs EXCEPT ![TempFileName] = TextFile(<<>>)] ELSE fs

\* variant: the block is appended without the separating newline
NewContentNoSeparator(c, rows, s, e) ==
  IF s = -1 /\ e = -1
  THEN c \o Join(rows, NL)
  ELSE Take(c, s) \o Join(rows, NL) \o Drop(c, e + Len(mdEndStr))

\* variant: end_index is not moved past the end marker
NewContentKeepsEndMarker(c, rows, s, e) ==
  IF s = -1 /\ e = -1
  THEN c \o NL \o Join(rows, NL)
  ELSE Take(c, s) \o Join(rows, NL) \o Drop(c, e)

\* what lines 308-315 write
NewContent(c, rows, s, e) ==
  IF s = -1 /\ e = -1
  THEN c \o NL \o Join(rows, NL)
  ELSE Take(c, s) \o Join(rows, NL) \o Drop(c, e + Len(mdEndStr))

\* writeFile up to the opening of the temporary file (lines 285-305).
\* readFile raises ADOPipelineDocException for a missing file (lines 108-109),
\* not FileNotFoundError, so the handler of lines 319-321 is not entered from
\* the read; the temporary directory is taken to be usable and on the
\* target's filesystem, so neither lines 304 nor 317 raise.
WriteFile ==
  /\ pc = "writeFile"
  /\ IF ~mdFile
     THEN /\ stdout' = Append(stdout, Join(table_rows, NL))
          /\ pc' = "done"
          /\ UNCHANGED <<err, files, content, start_index, end_index>>
     ELSE IF ~files["md"].exists
     THEN Fail("ConfigNotFound") /\ UNCHANGED <<files, content, start_index, end_index>>
     ELSE IF ~files["md"].readable
     THEN Fail("AccessDenied") /\ UNCHANGED <<files, content, start_index, end_index>>
     ELSE LET c == files["md"].text
              s == Find(c, mdStartStr)
              e == Find(c, mdEndStr)
              error == MarkerError(s, e)
          IN /\ content' = c
             /\ start_index' = s
             /\ end_index' = e
             /\ files' = AfterMarkerChecks(files, error)
             /\ IF error = "none"
                THEN pc' = "tempOpen" /\ UNCHANGED <<err, stdout>>
                ELSE Fail(error)
  /\ UNCHANGED <<yamlIn, mdFile, parameters, table_rows, runs, docIn, doc0, doc1>>

\* temp_file.write(...) and the close at the end of the with block
WriteTemp ==
  /\ pc = "tempOpen"
  /\ files' = [files EXCEPT ![TempFileName] =
                 TextFile(NewContent(content, table_rows, start_index, end_index))]
  /\ pc' = "tempClosed"
  /\ UNCHANGED <<yamlIn, mdFile, err, parameters, table_rows, stdout, content,
                 start_index, end_index, runs, docIn, doc0, doc1>>

\* os.replace(temp_file_name, self.mdFile)
Replace ==
  /\ pc = "tempClosed"
  /\ files' = [f \in {"md", "tmp"} |->
                 IF f = "md" THEN files[TempFileName]
                 ELSE IF f = TempFileName THEN AbsentFile ELSE files[f]]
  /\ doc1' = IF runs = 1 THEN files'["md"] ELSE doc1
  /\ pc' = "done"
  /\ UNCHANGED <<yamlIn, mdFile, err, parameters, table_rows, stdout, content,
                 start_index, end_index, runs, docIn, doc0>>

\* the process dies during writeFile, at any of its steps
Crash ==
  /\ pc \in {"writeFile", "tempOpen", "tempClosed"}
  /\ pc' = "crashed"
  /\ UNCHANGED <<yamlIn, mdFile, files, err, parameters, table_rows, stdout, content,
                 start_index, end_index, runs, docIn, doc0, doc1>>

\* the tool is invoked again with the same arguments
Rerun ==
  /\ pc = "done"
  /\ mdFile
  /\ runs < MaxRuns
  /\ runs' = runs + 1
  /\ pc' = "parseYAML"
  /\ err' = "none"
  /\ parameters' = <<>>
  /\ table_rows' = <<>>
  /\ stdout' = <<>>
  /\ content' = <<>>
  /\ start_index' = -1
  /\ end_index' = -1
  /\ docIn' = files["md"]
  /\ UNCHANGED <<yamlIn, mdFile, files, doc0, doc1>>

Next == ParseYAML \/ ProcessData \/ WriteFile \/ WriteTemp \/ Replace \/ Crash \/ Rerun

Spec == Init /\ [][Next]_vars

TypeOK ==
  /\ pc \in {"parseYAML", "processData", "writeFile", "tempOpen", "tempClosed",
             "done", "error", "uncaught", "crashed"}
  /\ runs \in 1..MaxRuns

\* ------------------------------------------------------- notions of the claims
\* the rendered block: the lines of the table joined by newlines
Block == Join(table_rows, NL)

\* the configuration holds a non-empty list whose records all have name and type
ValidList ==
  /\ yamlIn.kind = "map" /\ yamlIn.hasParams /\ yamlIn.params # <<>>
  /\ \A i \in 1..Len(yamlIn.params) : ~MissingField(yamlIn.params[i])

\* the invocation is over
Ended == pc \in {"done", "error", "uncaught"}

\* the target document exists and was read
TargetRead == mdFile /\ docIn.exists /\ docIn.readable

HasStart(t) == Find(t, mdStartStr) # -1
HasEnd(t) == Find(t, mdEndStr) # -1

\* an empty value: null, "", [] or {}
Empty(v) == v.tag = "none" \/ (v.tag \in {"str", "list", "dict"} /\ v.items = <<>>)

\* the record gives the field a value that is not empty
Populates(p, c) == c \in DOMAIN p /\ ~Empty(p[c])

\* the columns the table is to have
ExpectedCols ==
  SelectSeq(heading_order,
            LAMBDA c : c \notin OptionalCols
                       \/ \E i \in 1..Len(parameters) : Populates(parameters[i], c))

\* the lines of the table, markers aside
TableLines == IF mdFile THEN SubSeq(table_rows, 2, Len(table_rows) - 1) ELSE table_rows

Rendered == table_rows # <<>>

\* number of column delimiters of a line
Delimiters(line) == Cardinality({i \in 1..Len(line) : line[i] = " | "})

\* the first cell of a data line
FirstCell(line) ==
  LET k == CHOOSE i \in 2..Len(line) :
             /\ line[i] \in {" | ", " |"}
             /\ \A j \in 2..(i - 1) : line[j] \notin {" | ", " |"}
  IN SubSeq(line, 2, k - 1)

Taxonomy == {"ConfigNotFound", "AccessDenied", "MalformedConfig", "EmptyConfig",
             "NoParameters", "MissingRequiredField", "DanglingStartMarker",
             "DanglingEndMarker"}

\* --------------------------------------------------------------- the claims

\* C1: with a target path whose file does not exist and a valid parameter
\* list, the run ends without error and the file holds the rendered block
\* followed by one newline.
C1_CreatesMissingTarget ==
  (mdFile /\ ~docIn.exists /\ ValidList /\ Ended)
    => /\ pc = "done"
       /\ files["md"] = TextFile(Block \o NL)

\* C2: when the target holds both markers, a finished merge leaves
\* prefix + block + suffix, prefix being the text before the first start
\* marker and suffix the text after the first end marker, the two lying on
\* either side of a span that begins with the start marker and ends with the
\* end marker (so that every fragment outside the span is kept exactly once).
C2_SpanReplaced ==
  (pc = "done" /\ TargetRead /\ HasStart(docIn.text) /\ HasEnd(docIn.text))
    => LET s == Find(docIn.text, mdStartStr)
           e == Find(docIn.text, mdEndStr)
       IN /\ s + Len(mdStartStr) <= e
          /\ files["md"].text =
               Take(docIn.text, s) \o Block \o Drop(docIn.text, e + Len(mdEndStr))

\* C3: once writeFile has examined an existing target, an end marker with no
\* start marker before it has ended the run with DanglingEndMarker, and a start
\* marker with no end marker after it with DanglingStartMarker (first
\* occurrences; when the end marker precedes the start marker both descriptions
\* apply and either error satisfies the claim).
C3_DanglingMarkersFail ==
  (TargetRead /\ Rendered /\ pc \in {"tempOpen", "tempClosed", "done", "error"})
    => LET s == Find(docIn.text, mdStartStr)
           e == Find(docIn.text, mdEndStr)
           endDangling == e # -1 /\ (s = -1 \/ s > e)
           startDangling == s # -1 /\ (e = -1 \/ e < s)
       IN /\ (endDangling /\ ~startDangling) => (pc = "error" /\ err = "DanglingEndMarker")
          /\ (startDangling /\ ~endDangling) => (pc = "error" /\ err = "DanglingStartMarker")
          /\ (startDangling /\ endDangling)
               => (pc = "error" /\ err \in {"DanglingStartMarker", "DanglingEndMarker"})

C5_ColumnsIffPopulated ==
  Rendered
    => /\ TableLines[1] = PipeRow([i \in 1..Len(ExpectedCols) |-> <<ExpectedCols[i]>>])
       /\ TableLines[2] =
            PipeRow([i \in 1..Len(ExpectedCols) |-> <<heading_separator(ExpectedCols[i])>>])
       /\ \A i \in 3..Len(TableLines) : Delimiters(TableLines[i]) = Len(ExpectedCols) - 1

\* C6: the required cell of a parameter's line is "Yes" when the record has
\* no default and empty when the record has a default that is not empty.
C6_RequiredFromDefault ==
  Rendered
    => \A i \in 1..Len(parameters) :
         LET p == parameters[i]
             cell == FirstCell(TableLines[i + 2])
         IN /\ "default" \notin DOMAIN p => cell = <<"Yes">>
            /\ Populates(p, "default") => cell = <<>>

\* C7: a run that ended in a taxonomy error left the target as it found it,
\* created no file and printed nothing but the error line; whenever a file
\* has been touched, the whole list was validated and no marker test failed.
C7_ErrorsLeaveNoOutput ==
  /\ pc = "error"
       => /\ err \in Taxonomy
          /\ files["md"] = docIn
          /\ ~files["tmp"].exists
          /\ stdout = << <<"Error: ", err>> >>
  /\ (files["md"] # docIn \/ files["tmp"].exists)
       => /\ err = "none"
          /\ Rendered
          /\ \A i \in 1..Len(parameters) : ~MissingField(parameters[i])
          /\ MarkerError(Find(docIn.text, mdStartStr), Find(docIn.text, mdEndStr)) = "none"

C7_Witness ==
  /\ pc = "error" /\ err = "MissingRequiredField"
  /\ mdFile /\ docIn.exists /\ docIn.text # <<>>
  /\ Len(parameters) = 2 /\ ~MissingField(parameters[1])

C9_LoaderTaxonomy ==
  (yamlIn.kind \in {"null", "seq", "scalar", "map"} /\ pc # "parseYAML")
    => \/ yamlIn.kind = "null" /\ pc = "error" /\ err = "EmptyConfig"
       \/ /\ yamlIn.kind # "null"
          /\ ~yamlIn.hasParams \/ yamlIn.params = <<>>
          /\ pc = "error" /\ err = "NoParameters"
       \/ parameters # <<>> /\ parameters = yamlIn.params

\* the cells of the table hold no marker
CellsWithoutMarker ==
  \A i \in 1..Len(TableLines) : ~HasStart(TableLines[i]) /\ ~HasEnd(TableLines[i])

\* the original target has no marker, or its first start marker precedes
\* its first end marker
Mergeable(t) ==
  \/ ~HasStart(t) /\ ~HasEnd(t)
  \/ HasStart(t) /\ HasEnd(t) /\ Find(t, mdStartStr) < Find(t, mdEndStr)

C10_WithoutCellCondition ==
  (pc = "done" /\ runs >= 2 /\ mdFile /\ Mergeable(doc0.text)) => files["md"] = doc1

====
